---- MODULE Spec2Model ----
(***************************************************************************)
(* Model of src/app.py, the voice assistant "Miehab": the turn loop        *)
(* ai_talking_friend, the capture wrapper listen, the speech wrapper speak *)
(* with its engine_lock, the cue player play_beep and the three lookup     *)
(* adapters get_weather, get_wikipedia_summary and generate_ai_response.   *)
(*                                                                         *)
(* A Python str is a sequence of fragments.  What the user says is a       *)
(* sequence of one-character fragments, so that lower(), "in", replace()   *)
(* and strip() are computed character by character as Python does.  A      *)
(* literal message of the program is a single fragment; an f-string is the *)
(* concatenation of its literal fragments and its arguments.               *)
(***************************************************************************)
EXTENDS Integers, Sequences, FiniteSets, TLC

(*************************** bounds of the model ***************************)
\* An utterance is at most MaxWords words of Words, joined by blanks.
MaxWords == 2
\* A disambiguation signal carries at most MaxOptions candidate titles.
MaxOptions == 4
\* Threads other than the main thread that call speak (SpecRespond only).
NumCallers == 3

(******************************* threads ***********************************)
\* The main thread, which runs ai_talking_friend.
LoopThread == 0
\* The value of engine_lock when no thread holds it.
NoThread == -1
Callers == 1..NumCallers
Threads == {LoopThread} \cup Callers

(******************************* strings ***********************************)
ascii_uppercase == <<"A", "B", "C", "D", "E", "F", "G", "H", "I", "J", "K", "L", "M",
                     "N", "O", "P", "Q", "R", "S", "T", "U", "V", "W", "X", "Y", "Z">>
ascii_lowercase == <<"a", "b", "c", "d", "e", "f", "g", "h", "i", "j", "k", "l", "m",
                     "n", "o", "p", "q", "r", "s", "t", "u", "v", "w", "x", "y", "z">>

\* str.lower() on one character, and on a string.
lower_char(c) ==
    IF \E i \in 1..Len(ascii_uppercase) : ascii_uppercase[i] = c
    THEN ascii_lowercase[CHOOSE i \in 1..Len(ascii_uppercase) : ascii_uppercase[i] = c]
    ELSE c
lower(s) == [i \in 1..Len(s) |-> lower_char(s[i])]

\* str.upper() on one character; str.capitalize() on a string.
upper_char(c) ==
    IF \E i \in 1..Len(ascii_lowercase) : ascii_lowercase[i] = c
    THEN ascii_uppercase[CHOOSE i \in 1..Len(ascii_lowercase) : ascii_lowercase[i] = c]
    ELSE c
capitalize(s) == [i \in 1..Len(s) |-> IF i = 1 THEN upper_char(s[i]) ELSE lower_char(s[i])]

\* Python's "sub in s".
contains(s, sub) ==
    \E i \in 1..(Len(s) - Len(sub) + 1) : SubSeq(s, i, i + Len(sub) - 1) = sub

\* s.replace(old, ""): every non-overlapping occurrence of old, left to right.
RECURSIVE replace_empty(_, _)
replace_empty(s, old) ==
    IF Len(s) < Len(old) THEN s
    ELSE IF SubSeq(s, 1, Len(old)) = old
         THEN replace_empty(SubSeq(s, Len(old) + 1, Len(s)), old)
         ELSE <<Head(s)>> \o replace_empty(Tail(s), old)

\* s.strip(): leading and trailing whitespace removed.
RECURSIVE lstrip(_)
lstrip(s) == IF s # <<>> /\ Head(s) = " " THEN lstrip(Tail(s)) ELSE s
RECURSIVE rstrip(_)
rstrip(s) == IF s # <<>> /\ s[Len(s)] = " " THEN rstrip(SubSeq(s, 1, Len(s) - 1)) ELSE s
strip(s) == rstrip(lstrip(s))

\* sep.join(items), as fragments.
RECURSIVE join(_, _)
join(sep, items) ==
    IF items = <<>> THEN <<>>
    ELSE IF Len(items) = 1 THEN <<items[1]>>
    ELSE <<items[1], sep>> \o join(sep, Tail(items))

\* The keywords the turn loop tests for and removes.
kw_bye == <<"b", "y", "e">>
kw_weather == <<"w", "e", "a", "t", "h", "e", "r">>
kw_Wikipedia == <<"W", "i", "k", "i", "p", "e", "d", "i", "a">>
kw_tell_me_about == <<"t", "e", "l", "l", " ", "m", "e", " ", "a", "b", "o", "u", "t">>

(************************ what the user may say ****************************)
w_bye == <<"b", "y", "e">>
w_GoodBye == <<"G", "o", "o", "d", "B", "y", "e">>
w_Weather == <<"W", "e", "a", "t", "h", "e", "r">>
w_wikipedia == <<"w", "i", "k", "i", "p", "e", "d", "i", "a">>
w_Wikipedia == <<"W", "i", "k", "i", "p", "e", "d", "i", "a">>
w_tell == <<"t", "e", "l", "l", " ", "m", "e", " ", "a", "b", "o", "u", "t">>
w_Tell == <<"T", "e", "l", "l", " ", "m", "e", " ", "a", "b", "o", "u", "t">>
w_python == <<"p", "y", "t", "h", "o", "n">>
w_paris == <<"p", "a", "r", "i", "s">>

Words == {w_bye, w_GoodBye, w_Weather, w_wikipedia, w_Wikipedia, w_tell, w_Tell, w_python}

RECURSIVE Phrases(_)
Phrases(n) ==
    IF n <= 1 THEN Words
    ELSE Phrases(n - 1) \cup {p \o <<" ">> \o w : p \in Phrases(n - 1), w \in Words}

\* What the transcription provider may return in main listening.
Utterances == Phrases(MaxWords)
\* What it may return after the city prompt.
CityAnswers == {w_paris, w_bye}

\* Candidate titles of a disambiguation signal, and the signals.
Titles == {"Apple Inc.", "Apple (fruit)", "Apple Records"}
OptionLists == UNION {[1..n -> Titles] : n \in 0..MaxOptions}

\* What a secondary thread may ask speak to say.
CallerTexts == {<<"Reminder">>, <<"Timer done">>}

(************************ messages of the program **************************)
MsgGreeting == <<"Hi, I'm Miehab, your personal voice assistant. How can I help you today?">>
MsgGoodbye == <<"Goodbye! Talk to you soon!">>
MsgWhichCity == <<"Which city should I check?">>
MsgNoCity == <<"I couldn't understand the city name. Please try again.">>
MsgNoTopic == <<"Please specify a topic for me to search.">>
MsgThinking == <<"Thinking...">>
MsgAnythingElse == <<"Do you need help with anything else?">>
MsgDidntCatch == <<"Sorry, I didn't catch that. Could you repeat?">>
MsgInternet == <<"There seems to be an internet issue. Please check your connection.">>
MsgWentWrong == <<"Something went wrong. Could you try again?">>
MsgGenFailed == <<"I couldn't think of a response. Let me try again later.">>
MsgGenUnavailable == <<"AI generation isn't available at the moment.">>
MsgWeatherFailed == <<"I couldn't fetch the weather details. Please try later.">>
MsgWikiNotFound == <<"I couldn't find any information on that topic. Please try rephrasing.">>
MsgWikiFailed == <<"I encountered an issue accessing Wikipedia. Please try again later.">>
MsgSearching(topic) == <<"Searching Wikipedia for ">> \o topic \o <<"...">>

(*************************** lookup adapters *******************************)
\* What a single call of an adapter gives back to ai_talking_friend: a string
\* (raised = FALSE) or an exception that leaves the adapter (raised = TRUE).
Returned(v) == [raised |-> FALSE, value |-> v]
Raised == [raised |-> TRUE, value |-> <<>>]

\* The answers of the providers.  "raise" is any failure of the provider call
\* itself (transport, parsing, a missing field, the model failing).
WeatherOutcomes == {"ok", "cod_error", "raise"}
WikiKinds == {"ok", "page_error", "raise"}
GenOutcomes == {"ok", "raise"}
NoSignal == [kind |-> "none", options |-> <<>>]
WikiSignals == {[kind |-> k, options |-> <<>>] : k \in WikiKinds}
               \cup {[kind |-> "disambiguation", options |-> o] : o \in OptionLists}

\* Mutant: get_weather without its try/except, a provider failure leaves it.
get_weather_unhandled(c, outcome) ==
    IF outcome = "raise" THEN Raised
    ELSE IF outcome = "cod_error" THEN Returned(<<"Error: ", "city not found">>)
    ELSE Returned(capitalize(c) \o <<" weather: ", "clear sky", ", ", "21.0", "{deg}C, feels like ",
                                      "20.5", "{deg}C.">>)

\* get_weather(city, api_key) when the provider answers `outcome`.
get_weather(c, outcome) ==
    IF outcome = "raise" THEN Returned(MsgWeatherFailed)
    ELSE IF outcome = "cod_error" THEN Returned(<<"Error: ", "city not found">>)
    ELSE Returned(capitalize(c) \o <<" weather: ", "clear sky", ", ", "21.0", "{deg}C, feels like ",
                                      "20.5", "{deg}C.">>)

\* Mutant: the options are not truncated.
top_options_all(options) == options

\* e.options[:3]
top_options(options) == SubSeq(options, 1, IF Len(options) < 3 THEN Len(options) ELSE 3)

\* get_wikipedia_summary(query) when the provider answers `signal`.
get_wikipedia_summary(query, signal) ==
    IF signal.kind = "ok" THEN Returned(<<"Summary of ">> \o query)
    ELSE IF signal.kind = "disambiguation"
    THEN Returned(<<"Your query is too broad. Did you mean: ">>
                  \o join(", ", top_options(signal.options)) \o <<"?">>)
    ELSE IF signal.kind = "page_error" THEN Returned(MsgWikiNotFound)
    ELSE Returned(MsgWikiFailed)

\* generate_ai_response(prompt) with the module's generator `gen` (FALSE: None).
generate_ai_response(prompt, gen, outcome) ==
    IF gen
    THEN IF outcome = "raise" THEN Returned(MsgGenFailed)
         ELSE Returned(strip(prompt \o <<" ", "...">>))
    ELSE Returned(MsgGenUnavailable)

(************************* intent dispatch *********************************)
\* Mutant: the weather test placed before the farewell test.
Branch_weather_first(q) ==
    IF contains(lower(q), kw_weather) THEN "WeatherQuery"
    ELSE IF contains(lower(q), kw_bye) THEN "Farewell"
    ELSE IF contains(lower(q), kw_Wikipedia) \/ contains(lower(q), kw_tell_me_about)
    THEN "EncyclopediaQuery"
    ELSE "OpenChat"

\* The arm of the if/elif chain of ai_talking_friend an utterance takes.
Branch(q) ==
    IF contains(lower(q), kw_bye) THEN "Farewell"
    ELSE IF contains(lower(q), kw_weather) THEN "WeatherQuery"
    ELSE IF contains(lower(q), kw_Wikipedia) \/ contains(lower(q), kw_tell_me_about)
    THEN "EncyclopediaQuery"
    ELSE "OpenChat"

\* The topic of an encyclopedia turn.
extract_topic(q) == strip(replace_empty(replace_empty(q, kw_Wikipedia), kw_tell_me_about))

(***************************** capture *************************************)
\* Mutant: listen without its "except sr.RequestError" clause.
listen_handler_no_request(e) ==
    IF e = "UnknownValueError" THEN "UnknownValueError" ELSE "Exception"

\* The except clause of listen that catches exception type e.
listen_handler(e) ==
    IF e = "UnknownValueError" THEN "UnknownValueError"
    ELSE IF e = "RequestError" THEN "RequestError"
    ELSE "Exception"

\* What that clause speaks.
listen_apology(clause) ==
    IF clause = "UnknownValueError" THEN MsgDidntCatch
    ELSE IF clause = "RequestError" THEN MsgInternet
    ELSE MsgWentWrong

\* Mutant: speak has no except clause, an error of the device leaves it.
speak_propagates_uncaught(raised) == raised

\* Whether an exception of the device operation leaves speak: "except Exception"
\* catches every error the speech provider raises.
speak_propagates(raised) == FALSE

(******************************* state *************************************)
VARIABLES
    pc,          \* pc[t]: where thread t is
    stack,       \* stack[t]: the return places of the calls thread t is inside
    engine_lock, \* the thread holding engine_lock, or NoThread
    text,        \* text[t]: the argument of thread t's current call of speak
    spkErr,      \* spkErr[t]: the device operation of t's current call raised
    generator,   \* FALSE when the generation model failed to load (None)
    user_query,  \* locals of ai_talking_friend
    city,
    topic,
    result,      \* weather_info / summary / response
    exc,         \* the exception listen caught in its current call, or "none"
    signal,      \* the answer of the encyclopedia provider in this turn
    trace        \* what the main thread has called since the turn began

vars == <<pc, stack, engine_lock, text, spkErr, generator, user_query, city, topic,
          result, exc, signal, trace>>

Ev(op, kind, arg, out) == [op |-> op, kind |-> kind, arg |-> arg, out |-> out]

Init ==
    /\ pc = [t \in Threads |-> IF t = LoopThread THEN "greet" ELSE "idle"]
    /\ stack = [t \in Threads |-> <<>>]
    /\ engine_lock = NoThread
    /\ text = [t \in Threads |-> <<>>]
    /\ spkErr = [t \in Threads |-> FALSE]
    /\ generator \in BOOLEAN
    /\ user_query = <<>>
    /\ city = <<>>
    /\ topic = <<>>
    /\ result = <<>>
    /\ exc = "none"
    /\ signal = NoSignal
    /\ trace = <<>>

loopVars == <<user_query, city, topic, result, exc, signal, generator>>

(******************************* speak *************************************)
\* Thread t calls speak(msg) and will continue at ret.
CallSpeak(t, msg, ret) ==
    /\ pc' = [pc EXCEPT ![t] = "speak_acquire"]
    /\ stack' = [stack EXCEPT ![t] = <<ret>> \o @]
    /\ text' = [text EXCEPT ![t] = msg]
    /\ spkErr' = [spkErr EXCEPT ![t] = FALSE]
    /\ engine_lock' = engine_lock

\* Mutant: the device is entered without waiting for engine_lock.
speak_acquire_unguarded(t) ==
    /\ pc[t] = "speak_acquire"
    /\ engine_lock' = t
    /\ pc' = [pc EXCEPT ![t] = "speak_device"]
    /\ UNCHANGED <<stack, text, spkErr, trace, user_query, city, topic, result, exc,
                   signal, generator>>

\* with engine_lock: blocks until the lock is free, then takes it.
speak_acquire(t) ==
    /\ pc[t] = "speak_acquire"
    /\ engine_lock = NoThread
    /\ engine_lock' = t
    /\ pc' = [pc EXCEPT ![t] = "speak_device"]
    /\ UNCHANGED <<stack, text, spkErr, trace, loopVars>>

\* speaker.Speak(text, 0), or engine.say / runAndWait / stop: returns or raises.
speak_device(t) ==
    /\ pc[t] = "speak_device"
    /\ \E raised \in BOOLEAN : spkErr' = [spkErr EXCEPT ![t] = raised]
    /\ pc' = [pc EXCEPT ![t] = "speak_exit"]
    /\ UNCHANGED <<stack, engine_lock, text, trace, loopVars>>

\* Mutant: the lock is released by hand after the device call, not by a
\* with block: an error of the device skips the release.
speak_exit_keeps_lock(t) ==
    /\ pc[t] = "speak_exit"
    /\ engine_lock' = IF spkErr[t] THEN engine_lock ELSE NoThread
    /\ pc' = [pc EXCEPT ![t] = Head(stack[t])]
    /\ stack' = [stack EXCEPT ![t] = Tail(@)]
    /\ UNCHANGED <<text, spkErr, trace, user_query, city, topic, result, exc,
                   signal, generator>>

\* The except clause, the end of the with block and the return of speak.
speak_exit(t) ==
    /\ pc[t] = "speak_exit"
    /\ engine_lock' = NoThread
    /\ IF speak_propagates(spkErr[t])
       THEN /\ pc' = [pc EXCEPT ![t] = "crashed"]
            /\ stack' = [stack EXCEPT ![t] = <<>>]
       ELSE /\ pc' = [pc EXCEPT ![t] = Head(stack[t])]
            /\ stack' = [stack EXCEPT ![t] = Tail(@)]
    /\ UNCHANGED <<text, spkErr, trace, loopVars>>

\* A secondary thread calls speak.
CallerSpeak(c) ==
    /\ pc[c] = "idle"
    /\ \E msg \in CallerTexts : CallSpeak(c, msg, "idle")
    /\ UNCHANGED <<trace, loopVars>>

(******************************* listen ************************************)
LT == LoopThread

Log(e) == trace' = Append(trace, e)

\* The main thread goes to label l; frames and lock as they are.
Goto(l) ==
    /\ pc' = [pc EXCEPT ![LT] = l]
    /\ UNCHANGED <<stack, engine_lock, text, spkErr>>

\* The main thread calls speak(msg), logged, and continues at ret.
Say(msg, ret) == CallSpeak(LT, msg, ret) /\ Log(Ev("speak", "-", msg, "-"))

\* An exception leaves ai_talking_friend: the process ends with a traceback.
Crash ==
    /\ pc' = [pc EXCEPT ![LT] = "crashed"]
    /\ stack' = [stack EXCEPT ![LT] = <<>>]
    /\ UNCHANGED <<engine_lock, text, spkErr>>

\* listen() returns v: the caller's assignment (user_query = / city =) is made.
ReturnFromListen(v) ==
    /\ pc' = [pc EXCEPT ![LT] = Head(stack[LT])]
    /\ stack' = [stack EXCEPT ![LT] = Tail(@)]
    /\ IF Head(stack[LT]) = "check_empty"
       THEN user_query' = v /\ city' = city
       ELSE city' = v /\ user_query' = user_query
    /\ UNCHANGED <<engine_lock, text, spkErr>>

\* What the user may answer at this point of the dialogue.
Transcripts == IF Head(stack[LT]) = "check_empty" THEN Utterances ELSE CityAnswers

\* recognizer = sr.Recognizer(); with sr.Microphone() as source: outside any try.
listen_mic ==
    /\ pc[LT] = "listen_mic"
    /\ exc' = "none"
    /\ \E ok \in BOOLEAN : IF ok THEN Goto("listen_calibrate") ELSE Crash
    /\ UNCHANGED <<trace, generator, user_query, city, topic, result, signal>>

\* recognizer.adjust_for_ambient_noise(source): outside any try.
listen_calibrate ==
    /\ pc[LT] = "listen_calibrate"
    /\ \E ok \in BOOLEAN : IF ok THEN Goto("listen_capture") ELSE Crash
    /\ UNCHANGED <<trace, loopVars>>

\* play_beep(start): the file is played, is missing, or playsound fails and the
\* error is printed; play_beep returns to its caller in each case.
play_beep(start) == Ev("cue", IF start THEN "start" ELSE "stop", <<>>, "-")

\* play_beep(start=True); audio = recognizer.listen(source, timeout=8, ...)
listen_capture ==
    /\ pc[LT] = "listen_capture"
    /\ \E out \in {"audio", "WaitTimeoutError", "Exception"} :
         /\ trace' = trace \o <<play_beep(TRUE), Ev("capture", "-", <<>>, out)>>
         /\ IF out = "audio"
            THEN Goto("listen_transcribe") /\ exc' = exc
            ELSE Goto("listen_except") /\ exc' = out
    /\ UNCHANGED <<generator, user_query, city, topic, result, signal>>

\* play_beep(start=False); query = recognizer.recognize_google(audio); return query
listen_transcribe ==
    /\ pc[LT] = "listen_transcribe"
    /\ \/ \E q \in Transcripts :
            /\ trace' = trace \o <<play_beep(FALSE), Ev("transcribe", "-", <<>>, "text")>>
            /\ ReturnFromListen(q)
            /\ exc' = exc
       \/ \E e \in {"UnknownValueError", "RequestError", "Exception"} :
            /\ trace' = trace \o <<play_beep(FALSE), Ev("transcribe", "-", <<>>, e)>>
            /\ Goto("listen_except")
            /\ exc' = e
            /\ UNCHANGED <<user_query, city>>
    /\ UNCHANGED <<generator, topic, result, signal>>

\* except ...: play_beep(start=False); speak(<apology of the clause>)
listen_except ==
    /\ pc[LT] = "listen_except"
    /\ CallSpeak(LT, listen_apology(listen_handler(exc)), "listen_return_empty")
    /\ trace' = trace \o <<play_beep(FALSE),
                           Ev("speak", "-", listen_apology(listen_handler(exc)), "-")>>
    /\ UNCHANGED loopVars

\* return ""
listen_return_empty ==
    /\ pc[LT] = "listen_return_empty"
    /\ ReturnFromListen(<<>>)
    /\ UNCHANGED <<trace, generator, topic, result, exc, signal>>

(*************************** ai_talking_friend *****************************)
\* speak("Hi, I'm Miehab, ...")
LoopGreet ==
    /\ pc[LT] = "greet"
    /\ Say(MsgGreeting, "main_listen")
    /\ UNCHANGED loopVars

\* while True: user_query = listen().  A turn begins; the locals of the last
\* turn are dead (each is assigned before it is read) and are cleared.
LoopListen ==
    /\ pc[LT] = "main_listen"
    /\ pc' = [pc EXCEPT ![LT] = "listen_mic"]
    /\ stack' = [stack EXCEPT ![LT] = <<"check_empty">> \o @]
    /\ trace' = <<Ev("listen", "main", <<>>, "-")>>
    /\ city' = <<>> /\ topic' = <<>> /\ result' = <<>> /\ signal' = NoSignal
    /\ UNCHANGED <<engine_lock, text, spkErr, generator, user_query, exc>>

\* Mutant: the empty utterance is not skipped.
LoopCheckEmpty_nocontinue ==
    /\ pc[LoopThread] = "check_empty"
    /\ pc' = [pc EXCEPT ![LoopThread] = "dispatch"]
    /\ UNCHANGED <<stack, engine_lock, text, spkErr, trace, user_query, city, topic,
                   result, exc, signal, generator>>

\* if not user_query: continue
LoopCheckEmpty ==
    /\ pc[LT] = "check_empty"
    /\ IF user_query = <<>> THEN Goto("main_listen") ELSE Goto("dispatch")
    /\ UNCHANGED <<trace, loopVars>>

\* if "bye" in user_query.lower(): speak("Goodbye! ..."); break
LoopFarewell ==
    /\ pc[LT] = "dispatch"
    /\ Branch(user_query) = "Farewell"
    /\ CallSpeak(LT, MsgGoodbye, "break")
    /\ trace' = trace \o <<Ev("classify", "Farewell", user_query, "-"),
                           Ev("speak", "-", MsgGoodbye, "-")>>
    /\ UNCHANGED loopVars

LoopBreak ==
    /\ pc[LT] = "break"
    /\ Goto("ended")
    /\ UNCHANGED <<trace, loopVars>>

\* if "weather" in user_query.lower(): speak("Which city should I check?")
LoopWeather ==
    /\ pc[LT] = "dispatch"
    /\ Branch(user_query) = "WeatherQuery"
    /\ CallSpeak(LT, MsgWhichCity, "city_listen")
    /\ trace' = trace \o <<Ev("classify", "WeatherQuery", user_query, "-"),
                           Ev("speak", "-", MsgWhichCity, "-")>>
    /\ UNCHANGED loopVars

\* city = listen()
LoopCityListen ==
    /\ pc[LT] = "city_listen"
    /\ pc' = [pc EXCEPT ![LT] = "listen_mic"]
    /\ stack' = [stack EXCEPT ![LT] = <<"city_check">> \o @]
    /\ Log(Ev("listen", "city", <<>>, "-"))
    /\ UNCHANGED <<engine_lock, text, spkErr, loopVars>>

\* Mutant: the city is not tested, the weather lookup is called with it.
LoopCityCheck_unchecked ==
    /\ pc[LoopThread] = "city_check"
    /\ pc' = [pc EXCEPT ![LoopThread] = "weather_lookup"]
    /\ UNCHANGED <<stack, engine_lock, text, spkErr, trace, user_query, city, topic,
                   result, exc, signal, generator>>

\* Mutant: an empty city makes the loop ask the capture again.
LoopCityCheck_retry ==
    /\ pc[LoopThread] = "city_check"
    /\ pc' = [pc EXCEPT ![LoopThread] = IF city # <<>> THEN "weather_lookup" ELSE "city_listen"]
    /\ UNCHANGED <<stack, engine_lock, text, spkErr, trace, user_query, city, topic,
                   result, exc, signal, generator>>

\* if city: ... else: speak("I couldn't understand the city name. ...")
LoopCityCheck ==
    /\ pc[LT] = "city_check"
    /\ IF city # <<>>
       THEN Goto("weather_lookup") /\ trace' = trace
       ELSE Say(MsgNoCity, "anything_else")
    /\ UNCHANGED loopVars

\* weather_info = get_weather(city, api_key)
LoopWeatherLookup ==
    /\ pc[LT] = "weather_lookup"
    /\ \E out \in WeatherOutcomes :
         LET r == get_weather(city, out) IN
         /\ Log(Ev("lookup", "weather", city, out))
         /\ IF r.raised THEN Crash /\ result' = result
            ELSE Goto("speak_result") /\ result' = r.value
    /\ UNCHANGED <<generator, user_query, city, topic, exc, signal>>

\* elif "Wikipedia" in user_query.lower() or "tell me about" in user_query.lower():
\*     topic = ...; if topic: speak(f"Searching ...") else: speak("Please specify ...")
LoopWikipedia ==
    /\ pc[LT] = "dispatch"
    /\ Branch(user_query) = "EncyclopediaQuery"
    /\ topic' = extract_topic(user_query)
    /\ LET msg == IF topic' # <<>> THEN MsgSearching(topic') ELSE MsgNoTopic IN
         /\ CallSpeak(LT, msg, IF topic' # <<>> THEN "wiki_lookup" ELSE "anything_else")
         /\ trace' = trace \o <<Ev("classify", "EncyclopediaQuery", user_query, "-"),
                                Ev("speak", "-", msg, "-")>>
    /\ UNCHANGED <<generator, user_query, city, result, exc, signal>>

\* summary = get_wikipedia_summary(topic)
LoopWikiLookup ==
    /\ pc[LT] = "wiki_lookup"
    /\ \E sig \in WikiSignals :
         LET r == get_wikipedia_summary(topic, sig) IN
         /\ signal' = sig
         /\ Log(Ev("lookup", "encyclopedia", topic, sig.kind))
         /\ IF r.raised THEN Crash /\ result' = result
            ELSE Goto("speak_result") /\ result' = r.value
    /\ UNCHANGED <<generator, user_query, city, topic, exc>>

\* else: speak("Thinking...")
LoopChat ==
    /\ pc[LT] = "dispatch"
    /\ Branch(user_query) = "OpenChat"
    /\ CallSpeak(LT, MsgThinking, "gen_lookup")
    /\ trace' = trace \o <<Ev("classify", "OpenChat", user_query, "-"),
                           Ev("speak", "-", MsgThinking, "-")>>
    /\ UNCHANGED loopVars

\* response = generate_ai_response(user_query)
LoopGenLookup ==
    /\ pc[LT] = "gen_lookup"
    /\ \E out \in GenOutcomes :
         LET r == generate_ai_response(user_query, generator, out) IN
         /\ Log(Ev("lookup", "generate", user_query, IF generator THEN out ELSE "unavailable"))
         /\ IF r.raised THEN Crash /\ result' = result
            ELSE Goto("speak_result") /\ result' = r.value
    /\ UNCHANGED <<generator, user_query, city, topic, exc, signal>>

\* Mutant: the result is spoken and the loop iterates without the prompt.
LoopSpeakResult_noprompt ==
    /\ pc[LT] = "speak_result"
    /\ Say(result, "main_listen")
    /\ UNCHANGED loopVars

\* speak(weather_info) / speak(summary) / speak(response)
LoopSpeakResult ==
    /\ pc[LT] = "speak_result"
    /\ Say(result, "anything_else")
    /\ UNCHANGED loopVars

\* speak("Do you need help with anything else?"), then the next iteration
LoopAnythingElse ==
    /\ pc[LT] = "anything_else"
    /\ Say(MsgAnythingElse, "main_listen")
    /\ UNCHANGED loopVars

(*************************** specifications ********************************)
LoopNext ==
    \/ LoopGreet \/ LoopListen \/ LoopCheckEmpty
    \/ LoopFarewell \/ LoopBreak
    \/ LoopWeather \/ LoopCityListen \/ LoopCityCheck \/ LoopWeatherLookup
    \/ LoopWikipedia \/ LoopWikiLookup
    \/ LoopChat \/ LoopGenLookup
    \/ LoopSpeakResult \/ LoopAnythingElse
    \/ listen_mic \/ listen_calibrate \/ listen_capture \/ listen_transcribe
    \/ listen_except \/ listen_return_empty
    \/ speak_acquire(LT) \/ speak_device(LT) \/ speak_exit(LT)

\* The program as written: the main thread alone.
Next == LoopNext
Spec == Init /\ [][Next]_vars

\* speak under concurrent callers: secondary threads call it again and again.
CallerNext == \E c \in Callers : CallerSpeak(c) \/ speak_acquire(c) \/ speak_device(c) \/ speak_exit(c)
NextRespond == CallerNext
SpecRespond == Init /\ [][NextRespond]_vars

\* The same, every device call finishing and the lock being granted fairly:
\* a thread that waits for the lock while it is released again and again gets it.
FairRespond ==
    /\ SpecRespond
    /\ \A c \in Callers : /\ SF_vars(speak_acquire(c))
                          /\ WF_vars(speak_device(c))
                          /\ WF_vars(speak_exit(c))

(************************ vocabulary of the claims **************************)
\* Two characters are the same letter, whatever their case.
SameLetter(a, b) ==
    \/ a = b
    \/ \E i \in 1..Len(ascii_uppercase) : {a, b} = {ascii_uppercase[i], ascii_lowercase[i]}

\* s contains w, letter case ignored.
ContainsCI(s, w) ==
    \E i \in 1..(Len(s) - Len(w) + 1) : \A j \in 1..Len(w) : SameLetter(s[i + j - 1], w[j])

\* The intent of an utterance as the specification defines it.
RefIntent(q) ==
    IF ContainsCI(q, <<"b", "y", "e">>) THEN "Farewell"
    ELSE IF ContainsCI(q, <<"w", "e", "a", "t", "h", "e", "r">>) THEN "WeatherQuery"
    ELSE IF \/ ContainsCI(q, <<"w", "i", "k", "i", "p", "e", "d", "i", "a">>)
            \/ ContainsCI(q, <<"t", "e", "l", "l", " ", "m", "e", " ", "a", "b", "o", "u", "t">>)
    THEN "EncyclopediaQuery"
    ELSE "OpenChat"

\* The utterances of the model that contain "bye", and those that contain
\* "weather", letter case ignored.
SaidBye == {u \in Utterances : ContainsCI(u, <<"b", "y", "e">>)}
SaidWeather == {u \in Utterances : ContainsCI(u, <<"w", "e", "a", "t", "h", "e", "r">>)}

\* The turn has been classified; where in the trace; what was called since.
Classified == \E i \in DOMAIN trace : trace[i].op = "classify"
ClassifyIdx == CHOOSE i \in DOMAIN trace : trace[i].op = "classify"
AfterClassify == SubSeq(trace, ClassifyIdx + 1, Len(trace))
Spoke(msg) == Ev("speak", "-", msg, "-")

\* The main thread is inside speak and will return to ret, or is at ret.
SpeakingThen(ret) ==
    \/ pc[LT] \in {"speak_acquire", "speak_device", "speak_exit"} /\ stack[LT] = <<ret>>
    \/ pc[LT] = ret

\* s is a prefix of t.
IsPrefix(s, t) == Len(s) <= Len(t) /\ s = SubSeq(t, 1, Len(s))

(******************************** C1 ***************************************)
\* A turn whose utterance contains "bye" in any letter case.
ByeTurn == Classified /\ user_query \in SaidBye

\* In such a turn the loop calls nothing but speak(goodbye), and is inside that
\* call, at the break, or ended.
ByeTurnOnlyGoodbye ==
    ByeTurn => /\ AfterClassify = <<Spoke(MsgGoodbye)>>
               /\ trace[ClassifyIdx].kind = "Farewell"
               /\ SpeakingThen("break") \/ pc[LT] = "ended"

\* From the dispatch of such an utterance until the loop has ended.
InByeTurn ==
    /\ pc[LT] # "ended"
    /\ pc[LT] = "dispatch" \/ Classified
    /\ user_query \in SaidBye

\* How many steps of the main thread remain before the loop has ended.
ByeRank ==
    CASE pc[LT] = "dispatch" -> 5
      [] pc[LT] = "speak_acquire" -> 4
      [] pc[LT] = "speak_device" -> 3
      [] pc[LT] = "speak_exit" -> 2
      [] pc[LT] = "break" -> 1
      [] pc[LT] = "ended" -> 0
      [] OTHER -> 6

\* C1: every non-empty utterance of the main capture that contains "bye" in any
\* letter case makes the loop speak the goodbye message, and nothing else, and
\* then end, whatever else the utterance contains: from its dispatch on, the
\* loop can always take a step, and each step brings it closer to Ended.
C1_ByeEnds ==
    /\ [](ByeTurnOnlyGoodbye /\ (InByeTurn => ENABLED Next))
    /\ [][InByeTurn => ByeRank' < ByeRank]_vars

\* The loop has ended on an utterance with "Bye" capitalised and "weather" in it.
C1_Witness ==
    /\ pc[LT] = "ended"
    /\ contains(user_query, <<"B", "y", "e">>)
    /\ user_query \in SaidWeather
    /\ trace[Len(trace)] = Spoke(MsgGoodbye)

(******************************** C2 ***************************************)
\* A turn whose utterance contains "weather" and not "bye", any letter case.
WeatherTurn == Classified /\ user_query \in SaidWeather \ SaidBye

ListensUpTo(a, i) == Cardinality({j \in 1..i : a[j].op = "listen"})

\* C2: in a turn whose utterance contains "weather" (any case) and not "bye",
\* the loop first speaks the city prompt, then makes one sub-capture, and only
\* then may call a lookup; every lookup of the turn is the weather lookup and
\* it is preceded by exactly one sub-capture; the turn has no second one.
C2_WeatherPromptsThenOneSubCapture ==
    WeatherTurn =>
        LET a == AfterClassify IN
        /\ trace[ClassifyIdx].kind = "WeatherQuery"
        /\ Len(a) >= 1 /\ a[1] = Spoke(MsgWhichCity)
        /\ Len(a) = 1 => SpeakingThen("city_listen")
        /\ Len(a) >= 2 => a[2] = Ev("listen", "city", <<>>, "-")
        /\ ListensUpTo(a, Len(a)) <= 1
        /\ \A i \in DOMAIN a :
              a[i].op = "lookup" => a[i].kind = "weather" /\ ListensUpTo(a, i) = 1

\* The weather lookup has answered in a turn opened with a capitalised "Weather".
C2_Witness ==
    /\ WeatherTurn
    /\ contains(user_query, <<"W", "e", "a", "t", "h", "e", "r">>)
    /\ pc[LT] = "speak_result"
    /\ trace[Len(trace)].op = "lookup"
    /\ city = w_paris

(******************************** C3 ***************************************)
\* What a capture itself calls and speaks.
CaptureEvents(tr) ==
    \A i \in DOMAIN tr :
        \/ tr[i].op \in {"listen", "cue", "capture", "transcribe"}
        \/ tr[i] \in {Spoke(MsgDidntCatch), Spoke(MsgInternet), Spoke(MsgWentWrong)}

\* The step taken from the emptiness test on an empty utterance.
EmptyStep ==
    (pc[LT] = "check_empty" /\ user_query = <<>>) =>
        /\ pc'[LT] = "main_listen"
        /\ trace' = trace /\ stack' = stack /\ text' = text
        /\ engine_lock' = engine_lock /\ result' = result

\* The step taken next.
ListenAgainStep ==
    (pc[LT] = "main_listen" /\ user_query = <<>>) =>
        /\ pc'[LT] = "listen_mic"
        /\ stack'[LT] = <<"check_empty">>
        /\ trace' = <<Ev("listen", "main", <<>>, "-")>>

\* C3: when the main capture returns the empty string, the loop goes back to
\* the capture and does nothing else: the step from the emptiness test leaves
\* the call trace, the lock and the frames as they are and leads to the call
\* of listen, which is the only step taken from there; since the turn began
\* nothing was called but the capture's own cues, providers and apology.
C3_EmptyCaptureOnlyListensAgain ==
    /\ []((pc[LT] = "check_empty" /\ user_query = <<>>) => CaptureEvents(trace))
    /\ [][EmptyStep /\ ListenAgainStep]_vars

\* The loop is back at the capture after a capture that understood nothing.
C3_Witness ==
    /\ pc[LT] = "listen_mic"
    /\ user_query = <<>>
    /\ exc = "UnknownValueError"
    /\ stack[LT] = <<"check_empty">>

(******************************** C4 ***************************************)
InDevice == {t \in Threads : pc[t] = "speak_device"}

\* C4: at most one thread is inside the device operation of speak, and a
\* thread that is inside it, or has left it and not yet released the lock,
\* holds engine_lock: no other call enters the device before the release.
C4_OneSpeakerAtATime ==
    /\ Cardinality(InDevice) <= 1
    /\ \A t \in Threads : pc[t] \in {"speak_device", "speak_exit"} => engine_lock = t

\* One caller is inside the device while two others wait for the lock.
C4_Witness ==
    \E t \in Threads :
        /\ pc[t] = "speak_device"
        /\ Cardinality({u \in Threads : pc[u] = "speak_acquire"}) >= 2

(******************************** C5 ***************************************)
\* C5: when a call of speak returns, whether the device operation succeeded
\* or raised, the caller no longer holds engine_lock and continues at the
\* place the call returns to, the same in both cases; the lock is held only
\* by a thread inside the with block.
C5_SpeakReleasesAndReturns ==
    /\ [](\A t \in Threads : engine_lock = t => pc[t] \in {"speak_device", "speak_exit"})
    /\ [][\A t \in Threads :
            (pc[t] = "speak_exit" /\ pc'[t] # "speak_exit") =>
                /\ engine_lock' # t
                /\ pc'[t] = Head(stack[t])
                /\ stack'[t] = Tail(stack[t])]_vars

\* The city prompt failed on the device and the loop goes on to the sub-capture.
C5_Witness ==
    /\ pc[LT] = "city_listen"
    /\ spkErr[LT]
    /\ engine_lock = NoThread
    /\ trace[Len(trace)] = Spoke(MsgWhichCity)

(******************************** C6 ***************************************)
\* C6 (as claimed): once the loop has started it stops only after a farewell
\* utterance; no failure of a step of the capture, of a cue, of a lookup or of
\* speak ends it.
C6_OnlyFarewellTerminates ==
    pc[LT] \in {"ended", "crashed"} =>
        /\ pc[LT] = "ended"
        /\ Classified /\ trace[ClassifyIdx].kind = "Farewell"

(******************************** C7 ***************************************)
\* What the last call of listen returned to the place the main thread is at.
ListenResult == IF pc[LT] = "check_empty" THEN user_query ELSE city

\* C7: when the transcription provider cannot be reached during a capture, in
\* main listening or in the capture of the city, the caller gets no exception,
\* and when listen returns it returns the empty string, the last things it did
\* being the end cue and the call of speak with the connectivity apology,
\* which has returned.
C7_RequestErrorApologyThenSentinel ==
    exc = "RequestError" =>
        /\ pc[LT] # "crashed"
        /\ pc[LT] \in {"check_empty", "city_check"} =>
              /\ ListenResult = <<>>
              /\ trace[Len(trace)] = Spoke(MsgInternet)
              /\ trace[Len(trace) - 1] = play_beep(FALSE)
              /\ trace[Len(trace) - 2] = Ev("transcribe", "-", <<>>, "RequestError")

\* The capture of the city has returned after the provider could not be reached.
C7_Witness ==
    /\ exc = "RequestError"
    /\ pc[LT] = "city_check"
    /\ city = <<>>

(******************************** C8 ***************************************)
\* C8 (as claimed): the arm the loop takes for a non-empty utterance is the
\* intent of the utterance with every substring test case-insensitive:
\* Farewell, else WeatherQuery, else EncyclopediaQuery on "wikipedia" or
\* "tell me about", else OpenChat.
C8_DispatchIsRefIntent ==
    Classified => trace[ClassifyIdx].kind = RefIntent(user_query)

(******************************** C9 ***************************************)
\* The fixed apology of each lookup.
FixedApology(kind) ==
    IF kind = "weather" THEN <<"I couldn't fetch the weather details. Please try later.">>
    ELSE IF kind = "encyclopedia"
    THEN <<"I encountered an issue accessing Wikipedia. Please try again later.">>
    ELSE <<"I couldn't think of a response. Let me try again later.">>

\* The lookups of the turn, and those whose provider call failed ("raise": an
\* error of the call itself, as opposed to an answer of the provider such as
\* an error code, a disambiguation or a missing page).
Lookups == {i \in DOMAIN trace : trace[i].op = "lookup"}
FailedLookups == {i \in Lookups : trace[i].out = "raise"}

\* C9: no lookup raises into the loop, whatever its provider does: the loop
\* holds the string the adapter returned, speaks it, then speaks the "anything
\* else" prompt, and goes back to the main capture; when the provider call
\* failed that string is the fixed apology of the lookup.
C9_LookupFailureIsApology ==
    \A i \in Lookups :
        LET rest == SubSeq(trace, i + 1, Len(trace))
            said == <<Spoke(result), Spoke(MsgAnythingElse)>>
        IN  /\ pc[LT] # "crashed"
            /\ i \in FailedLookups => result = FixedApology(trace[i].kind)
            /\ IsPrefix(rest, said)
            /\ Len(rest) = 0 => pc[LT] = "speak_result"
            /\ Len(rest) = 1 => SpeakingThen("anything_else")
            /\ Len(rest) = 2 => SpeakingThen("main_listen")

\* A turn whose weather provider failed is over, the loop is back at its capture.
C9_Witness ==
    /\ pc[LT] = "main_listen"
    /\ \E i \in FailedLookups : trace[i].kind = "weather"
    /\ trace[Len(trace)] = Spoke(MsgAnythingElse)

(******************************** C10 **************************************)
\* The candidate titles a message names, in the order it names them.
TitlesNamed(msg) == SelectSeq(msg, LAMBDA f : f \in Titles)

\* C10: on a disambiguation signal with n candidates the encyclopedia lookup
\* returns the clarification message that names the first min(3, n) of them
\* in their order, and no other.
C10_DisambiguationNamesFirstThree ==
    signal.kind = "disambiguation" =>
        LET n == Len(signal.options)
            k == IF n < 3 THEN n ELSE 3
        IN  /\ result[1] = "Your query is too broad. Did you mean: "
            /\ result[Len(result)] = "?"
            /\ TitlesNamed(result) = SubSeq(signal.options, 1, k)

\* A signal with four candidates, the last of which differs from the first
\* three, has been answered and spoken.
C10_Witness ==
    /\ signal.kind = "disambiguation"
    /\ signal.options = <<"Apple Inc.", "Apple (fruit)", "Apple Inc.", "Apple Records">>
    /\ pc[LT] = "anything_else"

(******************************** C11 **************************************)
\* The apology the failure kinds call for: nothing heard before the silence
\* timeout or audio not understood, provider unreachable, anything else.
RefApology(e) ==
    IF e \in {"WaitTimeoutError", "UnknownValueError"}
    THEN <<"Sorry, I didn't catch that. Could you repeat?">>
    ELSE IF e = "RequestError"
    THEN <<"There seems to be an internet issue. Please check your connection.">>
    ELSE <<"Something went wrong. Could you try again?">>

\* C11 (as claimed): the apology a capture speaks is the one of its failure
\* kind: "didn't catch that" when the silence timeout expired or the audio was
\* not understood, the connectivity apology when the provider was unreachable,
\* "something went wrong" only for a failure of neither kind.
C11_ApologyByFailureKind ==
    pc[LT] = "listen_return_empty" => trace[Len(trace)] = Spoke(RefApology(exc))

(******************************** C12 **************************************)
\* s without the occurrences of w, letter case ignored.
RECURSIVE RemoveCI(_, _)
RemoveCI(s, w) ==
    IF Len(s) < Len(w) THEN s
    ELSE IF \A j \in 1..Len(w) : SameLetter(s[j], w[j])
         THEN RemoveCI(SubSeq(s, Len(w) + 1, Len(s)), w)
         ELSE <<s[1]>> \o RemoveCI(SubSeq(s, 2, Len(s)), w)

\* s without the blanks around it.
Trimmed(s) ==
    LET inked == {i \in 1..Len(s) : s[i] # " "} IN
    IF inked = {} THEN <<>>
    ELSE SubSeq(s, CHOOSE i \in inked : \A j \in inked : i <= j,
                   CHOOSE i \in inked : \A j \in inked : i >= j)

\* The topic of an utterance: the trigger phrases removed, the rest trimmed.
RefTopic(q) ==
    Trimmed(RemoveCI(RemoveCI(q, <<"w", "i", "k", "i", "p", "e", "d", "i", "a">>),
                     <<"t", "e", "l", "l", " ", "m", "e", " ", "a", "b", "o", "u", "t">>))

\* A turn the loop has dispatched to its encyclopedia arm.
EncyclopediaTurn == Classified /\ trace[ClassifyIdx].kind = "EncyclopediaQuery"

\* C12 (as claimed): in an encyclopedia turn the topic is the utterance with
\* "wikipedia" and "tell me about" removed and trimmed; an empty topic makes
\* the loop speak the prompt for a topic and call no lookup, any other topic
\* makes it speak the search announcement and then call the encyclopedia
\* lookup once, with that topic.
C12_TopicIsUtteranceWithoutTriggers ==
    EncyclopediaTurn =>
        LET a == AfterClassify
            t == RefTopic(user_query)
        IN  /\ topic = t
            /\ a[1] = IF t = <<>> THEN Spoke(MsgNoTopic) ELSE Spoke(MsgSearching(t))
            /\ t = <<>> => \A i \in DOMAIN a : a[i].op # "lookup"
            /\ Cardinality({i \in DOMAIN a : a[i].op = "lookup"}) <= 1
            /\ \A i \in DOMAIN a :
                  a[i].op = "lookup" => i = 2 /\ a[i].kind = "encyclopedia" /\ a[i].arg = t

(******************************** C13 **************************************)
\* A turn whose utterance does not contain "bye", classified.
NonFarewellTurn == Classified /\ user_query \notin SaidBye

\* The string such a turn holds for its response: what the lookup returned,
\* or the error of the empty city, or the prompt of the empty topic.
HeldString ==
    IF Lookups # {} THEN result
    ELSE IF trace[ClassifyIdx].kind = "WeatherQuery"
    THEN <<"I couldn't understand the city name. Please try again.">>
    ELSE <<"Please specify a topic for me to search.">>

AnythingElseAt == {i \in DOMAIN trace : trace[i] = Spoke(MsgAnythingElse)}

\* The main thread is inside a call of speak that returns to ret.
SpeakingIn(ret) ==
    pc[LT] \in {"speak_acquire", "speak_device", "speak_exit"} /\ stack[LT] = <<ret>>

\* The turn holds its string and has not yet gone back to the main capture.
Responding ==
    /\ NonFarewellTurn
    /\ \/ pc[LT] \in {"speak_result", "anything_else"}
       \/ SpeakingIn("anything_else")
       \/ SpeakingIn("main_listen")

\* The steps of the main thread that remain before the main capture is called.
RespondRank ==
    (IF pc[LT] = "speak_result" THEN 8
     ELSE IF pc[LT] = "anything_else" THEN 4
     ELSE IF pc[LT] = "main_listen" THEN 0
     ELSE IF pc[LT] = "speak_acquire" THEN 3
     ELSE IF pc[LT] = "speak_device" THEN 2
     ELSE IF pc[LT] = "speak_exit" THEN 1
     ELSE 9)
    + (IF pc[LT] \in {"speak_acquire", "speak_device", "speak_exit"}
          /\ stack[LT] = <<"anything_else">> THEN 4 ELSE 0)

\* The shape of the speech of a turn that is not a farewell.
TurnEndsWithPrompt ==
    NonFarewellTurn =>
        /\ Cardinality(AnythingElseAt) <= 1
        /\ \A i \in AnythingElseAt : i = Len(trace) /\ trace[i - 1] = Spoke(HeldString)
        /\ pc[LT] = "main_listen" => AnythingElseAt # {}
        /\ (pc[LT] = "anything_else" \/ SpeakingIn("anything_else")) =>
              trace[Len(trace)] = Spoke(HeldString)

\* C13: in every turn that is not a farewell, on the branch of a lookup
\* result or apology, of the empty city and of the empty topic alike, the loop
\* speaks the string it holds, then speaks "Do you need help with anything
\* else?" once, as the last speech of the turn, and then calls the main
\* capture: from the moment it holds the string each step is enabled and
\* brings it closer to that call.
C13_ResultThenPromptThenListen ==
    /\ [](TurnEndsWithPrompt /\ (Responding => ENABLED Next))
    /\ [][/\ Responding => RespondRank' < RespondRank
          /\ (pc[LT] = "main_listen" /\ NonFarewellTurn) =>
                (pc'[LT] = "listen_mic" /\ stack'[LT] = <<"check_empty">>)]_vars

\* A turn with an empty topic is over: prompt for a topic, then the question.
C13_Witness ==
    /\ pc[LT] = "main_listen"
    /\ NonFarewellTurn
    /\ Lookups = {}
    /\ trace[Len(trace) - 1] = Spoke(MsgNoTopic)
    /\ trace[Len(trace)] = Spoke(MsgAnythingElse)

(******************************** C14 **************************************)
CityListen == Ev("listen", "city", <<>>, "-")
CityListens == {i \in DOMAIN trace : trace[i] = CityListen}
NoCityAt == {i \in DOMAIN trace : trace[i] = Spoke(MsgNoCity)}

\* The capture of the city of a weather turn has returned the empty string.
CityCaptureEmpty ==
    /\ Classified /\ trace[ClassifyIdx].kind = "WeatherQuery"
    /\ CityListens # {}
    /\ city = <<>>
    /\ pc[LT] \notin {"listen_mic", "listen_calibrate", "listen_capture", "listen_transcribe",
                      "listen_except", "listen_return_empty", "crashed"}
    /\ \A i \in DOMAIN stack[LT] : stack[LT][i] # "city_check"

\* What the loop has done since.
AfterEmptyCity ==
    CityCaptureEmpty =>
        /\ Lookups = {}
        /\ Cardinality(CityListens) = 1
        /\ pc[LT] = "city_check" => NoCityAt = {}
        /\ pc[LT] # "city_check" =>
              \E k \in NoCityAt :
                 LET j == CHOOSE i \in CityListens : TRUE
                     rest == SubSeq(trace, k, Len(trace))
                 IN  /\ NoCityAt = {k} /\ j < k
                     /\ CaptureEvents(SubSeq(trace, j, k - 1))
                     /\ IsPrefix(rest, <<Spoke(MsgNoCity), Spoke(MsgAnythingElse)>>)
                     /\ Len(rest) = 1 => SpeakingThen("anything_else")
                     /\ Len(rest) = 2 => SpeakingThen("main_listen")

\* C14: in a weather turn whose capture of the city returns the empty string
\* the loop speaks "I couldn't understand the city name", calls no lookup and
\* no second capture of the city, speaks the "anything else" prompt and goes
\* back to the main capture.
C14_EmptyCityIsErrorWithoutLookup ==
    /\ [](AfterEmptyCity)
    /\ [][(pc[LT] = "city_check" /\ city = <<>>) =>
             /\ pc'[LT] = "speak_acquire"
             /\ text'[LT] = MsgNoCity
             /\ stack'[LT] = <<"anything_else">>]_vars

\* Such a turn is over, the city not having been understood.
C14_Witness ==
    /\ pc[LT] = "main_listen"
    /\ CityCaptureEmpty
    /\ exc = "UnknownValueError"
    /\ trace[Len(trace) - 1] = Spoke(MsgNoCity)

(******************************** C15 **************************************)
\* The failures of the turn: an audio capture or a transcription that raised,
\* a lookup whose provider call raised.
Failures ==
    {i \in DOMAIN trace :
        \/ trace[i].op = "capture" /\ trace[i].out # "audio"
        \/ trace[i].op = "transcribe" /\ trace[i].out # "text"
        \/ i \in FailedLookups}

\* The messages that report a failure to the user.
FailureMessages ==
    {MsgDidntCatch, MsgInternet, MsgWentWrong, MsgNoCity,
     FixedApology("weather"), FixedApology("encyclopedia"), FixedApology("generate")}
Reports == {i \in DOMAIN trace : trace[i].op = "speak" /\ trace[i].arg \in FailureMessages}

\* C15 (as claimed): between a failure of a capture or of a lookup and the
\* next main capture at most one message reporting the failure is spoken.
C15_OneReportPerFailure ==
    \A i \in Failures : Cardinality({k \in Reports : k > i}) <= 1

(******************************** C16 **************************************)
\* Events i and k of the trace belong to the same call of listen.
SameCapture(i, k) == \A m \in i..k : trace[m].op # "listen"

\* C16 (as claimed): in a call of listen the end cue is played once, before
\* the transcription provider is invoked and before any apology is spoken.
C16_EndCueOnceBeforeTranscription ==
    \A k \in DOMAIN trace :
        trace[k] = play_beep(FALSE) =>
            \A i \in 1..(k - 1) :
                SameCapture(i, k) =>
                    /\ trace[i] # play_beep(FALSE)
                    /\ trace[i].op \notin {"transcribe", "speak"}

(******************************** C17 **************************************)
\* C17: the thread of the loop holds engine_lock only between the entry of
\* the with block of speak and its exit; everywhere else (audio capture,
\* transcription, cues, lookups, dispatch) it does not hold it, and whenever
\* it calls speak, from the loop or from a handler of listen, the lock is
\* free, so the call does not block on its own lock.
C17_LoopNeverSpeaksHoldingLock ==
    /\ engine_lock = LT => pc[LT] \in {"speak_device", "speak_exit"}
    /\ pc[LT] = "speak_acquire" => engine_lock = NoThread

\* speak is called from a handler of the capture of the city, after the
\* calls of speak for the greeting and for the question: the lock is free.
C17_Witness ==
    /\ pc[LT] = "speak_acquire"
    /\ stack[LT] = <<"listen_return_empty", "city_check">>
    /\ exc = "RequestError"
    /\ engine_lock = NoThread

(******************************** C18 **************************************)
\* The intent whose turn may call the lookup of this kind.
LookupIntent(kind) ==
    IF kind = "weather" THEN "WeatherQuery"
    ELSE IF kind = "encyclopedia" THEN "EncyclopediaQuery"
    ELSE "OpenChat"

\* C18 (as claimed): a turn calls at most one lookup, of the kind of the
\* intent of its utterance; a turn whose utterance is a farewell calls no
\* lookup and no capture of a city and speaks nothing after the goodbye.
C18_OneLookupOfTheIntent ==
    /\ Cardinality(Lookups) <= 1
    /\ \A i \in Lookups : RefIntent(user_query) = LookupIntent(trace[i].kind)
    /\ ByeTurn => /\ Lookups = {}
                  /\ CityListens = {}
                  /\ AfterClassify = <<Spoke(MsgGoodbye)>>

(******************************** C19 **************************************)
\* A thread that is in the device stays there, with its text and the lock,
\* until its own device call has finished.
NotPreempted ==
    \A t \in Callers :
        pc[t] = "speak_device" =>
            /\ pc'[t] \in {"speak_device", "speak_exit"}
            /\ text'[t] = text[t]
            /\ engine_lock' = t

\* C19: when every device call finishes and the lock is granted fairly, every
\* call of speak that has started returns to its caller, whatever the other
\* threads do, and a call that is speaking is not cancelled or pre-empted.
C19_EverySpeakReturns ==
    /\ \A c \in Callers : (pc[c] = "speak_acquire") ~> (pc[c] = "idle")
    /\ [][NotPreempted]_vars

\* One call has returned, one is speaking and one waits for the lock.
C19_Witness ==
    \E a, b, c \in Callers :
        /\ pc[a] = "idle" /\ text[a] # <<>>
        /\ pc[b] = "speak_device" /\ engine_lock = b
        /\ pc[c] = "speak_acquire"

====
